---- MODULE Spec2Model ----
(***************************************************************************)
(* Model of the Aeronautic RAG flow (rag_flow).  One run of the CrewAI     *)
(* flow AeronauticRagFlow is followed from flow creation to the caller's   *)
(* classification of the outcome, for both entry points of the repository: *)
(*   "streamlit"  src/rag_flow/src/rag_flow/streamlit_main_app.py          *)
(*   "cli"        src/rag_flow/src/rag_flow/main.py                        *)
(* Text produced by the judge is a sequence of one-character strings so    *)
(* that strip(), lower() and the substring test are computed, not assumed. *)
(***************************************************************************)
EXTENDS Integers, Sequences, FiniteSets, TLC

\* ------------------------------------------------------------------------
\* Bounds of the model (not program constants)
\* ------------------------------------------------------------------------

\* invocation and execution counters saturate at this value
MaxCount == 2

\* the total number of stage executions of a run saturates at this value
MaxTotal == 10

\* number of runs the Streamlit session starts one after the other
MaxRuns == 2

\* the session takes no further run once its history holds this many entries
MaxHistory == 2

\* ------------------------------------------------------------------------
\* Text helpers: str.strip(), str.lower(), the `in` substring test
\* ------------------------------------------------------------------------

UpperChars == <<"A","B","C","D","E","F","G","H","I","J","K","L","M",
                "N","O","P","Q","R","S","T","U","V","W","X","Y","Z">>

LowerChars == <<"a","b","c","d","e","f","g","h","i","j","k","l","m",
                "n","o","p","q","r","s","t","u","v","w","x","y","z">>

Whitespace == {" ", "\n", "\t", "\r"}

LowerChar(c) ==
    IF \E i \in 1..Len(UpperChars) : UpperChars[i] = c
    THEN LowerChars[CHOOSE i \in 1..Len(UpperChars) : UpperChars[i] = c]
    ELSE c

\* str.lower()
Lower(s) == [i \in 1..Len(s) |-> LowerChar(s[i])]

\* str.strip(): drops leading and trailing whitespace
Strip(s) ==
    LET keep == {i \in 1..Len(s) : s[i] \notin Whitespace}
    IN  IF keep = {} THEN <<>>
        ELSE LET lo == CHOOSE i \in keep : \A j \in keep : i <= j
                 hi == CHOOSE i \in keep : \A j \in keep : j <= i
             IN  SubSeq(s, lo, hi)

\* `token in s` of Python: token occurs as a contiguous substring of s
Contains(s, token) ==
    \E i \in 1..(Len(s) - Len(token) + 1) :
        SubSeq(s, i, i + Len(token) - 1) = token

\* the literal 'true' of the gating stages
TrueToken == <<"t","r","u","e">>

\* res = res.content.strip().lower()
Normalize(content) == Lower(Strip(content))

\* the test without the case folding
IsAffirmativeNoLower(content) == Contains(Strip(content), TrueToken)

\* the test as an equality with the token instead of a substring search
IsAffirmativeExact(content) == Normalize(content) = TrueToken

\* if 'true' in res
IsAffirmative(content) == Contains(Normalize(content), TrueToken)

\* ------------------------------------------------------------------------
\* Inputs drawn by the environment
\* ------------------------------------------------------------------------

EntryPoints == {"streamlit", "cli"}

Questions == {"q1", "q2"}

\* free-text answers of a judge (res.content)
JudgeAnswers ==
    { <<"T","r","u","e">>,
      <<" ","T","R","U","E","\n">>,
      <<"U","n","t","r","u","e">>,
      <<"F","a","l","s","e">>,
      <<"t","r","u"," ","e">>,
      <<>> }

\* text of the exception raised by a failing worker call
Errors == {"timeout", "transport"}

\* a judge call returns text or raises
JudgeReplies ==
    [kind : {"text"}, content : JudgeAnswers, err : {""}]
    \cup [kind : {"error"}, content : {<<>>}, err : Errors]

\* result.raw of the four crews
RagOutputs  == {"", "kb1"}
WebOutputs  == {"", "web1"}
DocOutputs  == {"", "doc1"}
BiasOutputs == {"", "final1"}

CrewReplies(outs) ==
    [kind : {"text"}, raw : outs, err : {""}]
    \cup [kind : {"error"}, raw : {""}, err : Errors]

\* content of output/last_context.txt; NoFile when the file does not exist
NoFile == "<no file>"

Contexts == {"ctx1", "ctx2"}

Workers == {"relevance_judge", "ethics_judge", "rag_crew", "web_crew",
            "doc_crew", "bias_crew"}

ResearchWorkers == {"rag_crew", "web_crew", "doc_crew", "bias_crew"}

Stages == {"starting_procedure", "generate_question",
           "aeronautic_question_analysis", "ethic_question_analysis",
           "handle_validation_error", "rag_analysis", "web_analysis",
           "aggregate_results", "bias_check", "plot_generation"}

\* ------------------------------------------------------------------------
\* State
\* ------------------------------------------------------------------------

VARIABLES
    entry,         \* entry point that runs the flow
    pc,            \* stage about to execute, or "returned" / "raised" / "reported"
    state,         \* AeronauticRagState
    payload,       \* dictionary handed from listener to listener
    signal,        \* value returned by the last router
    lastReply,     \* reply of the last judge call
    raised,        \* text of the exception that ended the run, "" if none
    last_context,  \* output/last_context.txt
    invoked,       \* number of invocations of each worker (saturating)
    calls,         \* invocations of the research workers, in order, with their inputs
    execs,         \* number of executions of each stage (saturating)
    total,         \* number of stage executions (saturating)
    verdicts,      \* classification made by each gate during the run
    outcome,       \* what the caller of kickoff() reports
    question,      \* the caller's local variable `question`
    lastPrompt,    \* question embedded in the prompt of the last judge call
    ui,            \* behaviour of the attached status / progress components
    run,           \* number of the run within the session
    earlier,       \* results reported for the earlier runs of the session
    retrieval,     \* what the rag_system tool did in this run, and who wrote
                   \* the context file and the context the stage returned
    cancel,        \* the user asked to cancel the current run
    results,       \* TrustedWebSearch._run: response of the Serper search
    tool_output,   \* TrustedWebSearch._run: value returned
    emitted,       \* progress fractions (in percent) shown by update_ui in this run
    execution_history  \* st.session_state.execution_history

vars == <<entry, pc, state, payload, signal, lastReply, raised, last_context,
          invoked, calls, execs, total, verdicts, outcome, question,
          lastPrompt, ui, run, earlier, retrieval, cancel, results,
          tool_output, emitted, execution_history>>

\* class AeronauticRagState(BaseModel): every field defaults to ""
AeronauticRagState ==
    [question_input   |-> "",
     rag_result       |-> "",
     web_result       |-> "",
     all_results      |-> <<>>,
     document         |-> "",
     final_doc        |-> "",
     rag_context      |-> "",
     validation_error |-> "",
     error_message    |-> <<>>]

NoReply == [kind |-> "none", content |-> <<>>, err |-> ""]

EmptyPayload == [k \in {} |-> ""]

Sat(n, max) == IF n < max THEN n + 1 ELSE max


\* ------------------------------------------------------------------------
\* Flow wiring: the @start / @listen / @router decorators
\* ------------------------------------------------------------------------

\* error kinds written to state.validation_error by the gating stages
\* the relevance gate recording the kind of a technical failure
AeronauticKindIsTechnical == "technical"

AeronauticKind == "aeronautic"

EthicalKind == "ethical"

TechnicalKind == "technical"

\* the wiring with web_analysis left out of the listener chain
ListenerSkipsWeb(e, trigger) ==
    CASE trigger = "retry"                        -> "starting_procedure"
      [] trigger = "starting_procedure"           -> "generate_question"
      [] trigger = "generate_question"            -> "aeronautic_question_analysis"
      [] trigger = "success"                      -> "ethic_question_analysis"
      [] trigger = "validation_failed" /\ e = "streamlit"
                                                  -> "handle_validation_error"
      [] trigger = "success-ethical"              -> "rag_analysis"
      [] trigger = "rag_analysis"                 -> "aggregate_results"
      [] trigger = "web_analysis"                 -> "aggregate_results"
      [] trigger = "aggregate_results"            -> "bias_check"
      [] trigger = "bias_check"                   -> "plot_generation"
      [] OTHER                                    -> "returned"

\* the wiring with a failed validation continuing into the research stages
ListenerFailOpen(e, trigger) ==
    CASE trigger = "retry"                        -> "starting_procedure"
      [] trigger = "starting_procedure"           -> "generate_question"
      [] trigger = "generate_question"            -> "aeronautic_question_analysis"
      [] trigger = "success"                      -> "ethic_question_analysis"
      [] trigger = "validation_failed" /\ e = "streamlit"
                                                  -> "rag_analysis"
      [] trigger = "success-ethical"              -> "rag_analysis"
      [] trigger = "rag_analysis"                 -> "web_analysis"
      [] trigger = "web_analysis"                 -> "aggregate_results"
      [] trigger = "aggregate_results"            -> "bias_check"
      [] trigger = "bias_check"                   -> "plot_generation"
      [] OTHER                                    -> "returned"

\* the wiring with a route that looks at the state's question
ListenerInspectsState(e, trigger) ==
    CASE trigger = "retry"                        -> "starting_procedure"
      [] trigger = "starting_procedure"           -> "generate_question"
      [] trigger = "generate_question"            -> "aeronautic_question_analysis"
      [] trigger = "success"                      ->
              IF state.question_input = "q2" THEN "rag_analysis"
              ELSE "ethic_question_analysis"
      [] trigger = "validation_failed" /\ e = "streamlit"
                                                  -> "handle_validation_error"
      [] trigger = "success-ethical"              -> "rag_analysis"
      [] trigger = "rag_analysis"                 -> "web_analysis"
      [] trigger = "web_analysis"                 -> "aggregate_results"
      [] trigger = "aggregate_results"            -> "bias_check"
      [] trigger = "bias_check"                   -> "plot_generation"
      [] OTHER                                    -> "returned"

\* the wiring without the @listen("validation_failed") method
ListenerNoValidationHandler(e, trigger) ==
    CASE trigger = "retry"                        -> "starting_procedure"
      [] trigger = "starting_procedure"           -> "generate_question"
      [] trigger = "generate_question"            -> "aeronautic_question_analysis"
      [] trigger = "success"                      -> "ethic_question_analysis"
      [] trigger = "success-ethical"              -> "rag_analysis"
      [] trigger = "rag_analysis"                 -> "web_analysis"
      [] trigger = "web_analysis"                 -> "aggregate_results"
      [] trigger = "aggregate_results"            -> "bias_check"
      [] trigger = "bias_check"                   -> "plot_generation"
      [] OTHER                                    -> "returned"

\* the wiring with web_analysis listening to the ethics gate, ahead of the
\* knowledge-base stage
ListenerWebFirst(e, trigger) ==
    CASE trigger = "retry"                        -> "starting_procedure"
      [] trigger = "starting_procedure"           -> "generate_question"
      [] trigger = "generate_question"            -> "aeronautic_question_analysis"
      [] trigger = "success"                      -> "ethic_question_analysis"
      [] trigger = "validation_failed" /\ e = "streamlit"
                                                  -> "handle_validation_error"
      [] trigger = "success-ethical"              -> "web_analysis"
      [] trigger = "web_analysis"                 -> "aggregate_results"
      [] trigger = "aggregate_results"            -> "bias_check"
      [] trigger = "bias_check"                   -> "plot_generation"
      [] OTHER                                    -> "returned"

\* The method triggered by the completion of a method or by the string a
\* router returned; "returned" when nothing listens (kickoff() returns).
\* @listen("validation_failed") exists in the Streamlit flow only.
Listener(e, trigger) ==
    CASE trigger = "retry"                        -> "starting_procedure"
      [] trigger = "starting_procedure"           -> "generate_question"
      [] trigger = "generate_question"            -> "aeronautic_question_analysis"
      [] trigger = "success"                      -> "ethic_question_analysis"
      [] trigger = "validation_failed" /\ e = "streamlit"
                                                  -> "handle_validation_error"
      [] trigger = "success-ethical"              -> "rag_analysis"
      [] trigger = "rag_analysis"                 -> "web_analysis"
      [] trigger = "web_analysis"                 -> "aggregate_results"
      [] trigger = "aggregate_results"            -> "bias_check"
      [] trigger = "bias_check"                   -> "plot_generation"
      [] OTHER                                    -> "returned"

\* The Streamlit handler always attaches a status and a progress component
\* (set_ui_components); a component either works or raises when updated.
\* main.py has no update_ui.
UiOf(e) == IF e = "streamlit" THEN {"working", "failing"} ELSE {"none"}

\* text of the exception of a failing component
UiError == "ui component error"

\* no search has been made, nothing has been returned
NoSearch == [keys |-> {}, organic |-> <<>>, knowledgeGraph |-> [website |-> <<>>],
             peopleAlsoAsk |-> <<>>, relatedSearches |-> <<>>]

NoOutput == <<>>

\* methods whose first statement is self.update_ui(...)
UiStages == Stages \ {"generate_question"}

\* a progress table with the web stage announced below the stage before it
ProgressOfWebLow(stage) ==
    CASE stage = "starting_procedure"           -> 5
      [] stage = "aeronautic_question_analysis" -> 15
      [] stage = "ethic_question_analysis"      -> 25
      [] stage = "handle_validation_error"      -> 0
      [] stage = "rag_analysis"                 -> 45
      [] stage = "web_analysis"                 -> 35
      [] stage = "aggregate_results"            -> 85
      [] stage = "bias_check"                   -> 95
      [] stage = "plot_generation"              -> 100

\* the fraction each method passes to update_ui, in percent
ProgressOf(stage) ==
    CASE stage = "starting_procedure"           -> 5
      [] stage = "aeronautic_question_analysis" -> 15
      [] stage = "ethic_question_analysis"      -> 25
      [] stage = "handle_validation_error"      -> 0
      [] stage = "rag_analysis"                 -> 45
      [] stage = "web_analysis"                 -> 65
      [] stage = "aggregate_results"            -> 85
      [] stage = "bias_check"                   -> 95
      [] stage = "plot_generation"              -> 100

\* self.progress_placeholder.progress(progress, text="Processing...");
\* main.py has no update_ui
update_ui(stage) ==
    emitted' = IF entry = "streamlit" /\ stage \in UiStages
               THEN Append(emitted, ProgressOf(stage))
               ELSE emitted

\* bookkeeping common to every stage execution
Counted(stage) ==
    /\ execs' = [execs EXCEPT ![stage] = Sat(@, MaxCount)]
    /\ total' = Sat(total, MaxTotal)

\* a stage method runs: update_ui first, then its body
Executed(stage) ==
    /\ Counted(stage)
    /\ update_ui(stage)

Invoke(worker) == invoked' = [invoked EXCEPT ![worker] = Sat(@, MaxCount)]

Classified(gate, verdict) ==
    verdicts' = [verdicts EXCEPT ![gate] = @ \cup {verdict}]

\* ------------------------------------------------------------------------
\* Init: the flow object has been created and the question set
\* (streamlit_main_app.py 503-505, main.py 557-559)
\* ------------------------------------------------------------------------

Init ==
    /\ entry \in EntryPoints
    /\ pc = "starting_procedure"
    /\ question \in Questions
    /\ state = [AeronauticRagState EXCEPT !.question_input = question]
    /\ lastPrompt = ""
    /\ ui \in UiOf(entry)
    /\ run = 1
    /\ execution_history = <<>>
    /\ emitted = <<>>
    /\ results = NoSearch
    /\ tool_output = NoOutput
    /\ cancel = FALSE
    /\ earlier = {}
    /\ payload = EmptyPayload
    /\ signal = ""
    /\ lastReply = NoReply
    /\ raised = ""
    /\ last_context \in {NoFile} \cup Contexts
    /\ retrieval = [tool |-> "none", exposed |-> "",
                    file |-> IF last_context = NoFile THEN "none" ELSE "earlier"]
    /\ invoked = [w \in Workers |-> 0]
    /\ calls = <<>>
    /\ execs = [s \in Stages |-> 0]
    /\ total = 0
    /\ verdicts = [relevance |-> {}, ethics |-> {}]
    /\ outcome = [result |-> "running", banner |-> "", detail |-> <<>>]

\* ------------------------------------------------------------------------
\* Stages shared by both entry points
\* ------------------------------------------------------------------------

starting_procedure ==
    /\ pc = "starting_procedure"
    /\ Executed("starting_procedure")
    /\ pc' = Listener(entry, "starting_procedure")
    /\ UNCHANGED <<entry, execution_history, results, tool_output, question, ui, run, earlier, cancel, retrieval, lastPrompt, state, payload, signal, lastReply, raised,
                   last_context, invoked, calls, verdicts, outcome>>

\* the body is empty in both files: the question is not read again
generate_question ==
    /\ pc = "generate_question"
    /\ Executed("generate_question")
    /\ pc' = Listener(entry, "generate_question")
    /\ UNCHANGED <<entry, execution_history, results, tool_output, question, ui, run, earlier, cancel, retrieval, lastPrompt, state, payload, signal, lastReply, raised,
                   last_context, invoked, calls, verdicts, outcome>>

\* ------------------------------------------------------------------------
\* Gating stages, Streamlit flow
\* ------------------------------------------------------------------------

AeronauticMessage ==
    <<"La domanda non e' rilevante per l'aeronautica. Inserisci una domanda pertinente al settore aeronautico.">>

\* an ethics gate that records the kind of the rejection without a message
EthicalMessageMissing == <<>>

EthicalMessage ==
    <<"La domanda presenta problematiche etiche. Inserisci una domanda appropriata.">>

st_aeronautic_question_analysis ==
    /\ pc = "aeronautic_question_analysis"
    /\ entry = "streamlit"
    /\ Executed("aeronautic_question_analysis")
    /\ Invoke("relevance_judge")
    /\ lastPrompt' = state.question_input
    /\ \E r \in JudgeReplies :
          /\ lastReply' = r
          /\ IF r.kind = "error"
             THEN /\ state' = [state EXCEPT
                       !.validation_error = TechnicalKind,
                       !.error_message =
                           <<"Errore durante la validazione aeronautica: ", r.err>>]
                  /\ signal' = "validation_failed"
                  /\ Classified("relevance", "error")
             ELSE IF IsAffirmative(r.content)
             THEN /\ state' = state
                  /\ signal' = "success"
                  /\ Classified("relevance", "positive")
             ELSE /\ state' = [state EXCEPT
                       !.validation_error = AeronauticKind,
                       !.error_message = AeronauticMessage]
                  /\ signal' = "validation_failed"
                  /\ Classified("relevance", "negative")
    /\ pc' = Listener(entry, signal')
    /\ UNCHANGED <<entry, execution_history, results, tool_output, question, ui, run, earlier, cancel, retrieval, payload, raised, last_context, calls, outcome>>

st_ethic_question_analysis ==
    /\ pc = "ethic_question_analysis"
    /\ entry = "streamlit"
    /\ Executed("ethic_question_analysis")
    /\ Invoke("ethics_judge")
    /\ lastPrompt' = state.question_input
    /\ \E r \in JudgeReplies :
          /\ lastReply' = r
          /\ IF r.kind = "error"
             THEN /\ state' = [state EXCEPT
                       !.validation_error = TechnicalKind,
                       !.error_message =
                           <<"Errore durante la validazione etica: ", r.err>>]
                  /\ signal' = "validation_failed"
                  /\ Classified("ethics", "error")
             ELSE IF IsAffirmative(r.content)
             THEN /\ state' = state
                  /\ signal' = "success-ethical"
                  /\ Classified("ethics", "positive")
             ELSE /\ state' = [state EXCEPT
                       !.validation_error = EthicalKind,
                       !.error_message = EthicalMessage]
                  /\ signal' = "validation_failed"
                  /\ Classified("ethics", "negative")
    /\ pc' = Listener(entry, signal')
    /\ UNCHANGED <<entry, execution_history, results, tool_output, question, ui, run, earlier, cancel, retrieval, payload, raised, last_context, calls, outcome>>

\* update_ui only; the flow stops because nothing listens to this method
handle_validation_error ==
    /\ pc = "handle_validation_error"
    /\ Executed("handle_validation_error")
    /\ pc' = Listener(entry, "handle_validation_error")
    /\ UNCHANGED <<entry, execution_history, results, tool_output, question, ui, run, earlier, cancel, retrieval, lastPrompt, state, payload, signal, lastReply, raised,
                   last_context, invoked, calls, verdicts, outcome>>

\* ------------------------------------------------------------------------
\* Gating stages, command-line flow: no try/except, "retry" on a negative
\* answer, which triggers @start('retry') again
\* ------------------------------------------------------------------------

cli_aeronautic_question_analysis ==
    /\ pc = "aeronautic_question_analysis"
    /\ entry = "cli"
    /\ Executed("aeronautic_question_analysis")
    /\ Invoke("relevance_judge")
    /\ lastPrompt' = state.question_input
    /\ \E r \in JudgeReplies :
          /\ lastReply' = r
          /\ IF r.kind = "error"
             THEN /\ raised' = r.err
                  /\ signal' = signal
                  /\ pc' = "raised"
                  /\ Classified("relevance", "error")
             ELSE IF IsAffirmative(r.content)
             THEN /\ raised' = raised
                  /\ signal' = "success"
                  /\ pc' = Listener(entry, "success")
                  /\ Classified("relevance", "positive")
             ELSE /\ raised' = raised
                  /\ signal' = "retry"
                  /\ pc' = Listener(entry, "retry")
                  /\ Classified("relevance", "negative")
    /\ UNCHANGED <<entry, execution_history, results, tool_output, question, ui, run, earlier, cancel, retrieval, state, payload, last_context, calls, outcome>>

cli_ethic_question_analysis ==
    /\ pc = "ethic_question_analysis"
    /\ entry = "cli"
    /\ Executed("ethic_question_analysis")
    /\ Invoke("ethics_judge")
    /\ lastPrompt' = state.question_input
    /\ \E r \in JudgeReplies :
          /\ lastReply' = r
          /\ IF r.kind = "error"
             THEN /\ raised' = r.err
                  /\ signal' = signal
                  /\ pc' = "raised"
                  /\ Classified("ethics", "error")
             ELSE IF IsAffirmative(r.content)
             THEN /\ raised' = raised
                  /\ signal' = "success-ethical"
                  /\ pc' = Listener(entry, "success-ethical")
                  /\ Classified("ethics", "positive")
             ELSE /\ raised' = raised
                  /\ signal' = "retry"
                  /\ pc' = Listener(entry, "retry")
                  /\ Classified("ethics", "negative")
    /\ UNCHANGED <<entry, execution_history, results, tool_output, question, ui, run, earlier, cancel, retrieval, state, payload, last_context, calls, outcome>>


\* ------------------------------------------------------------------------
\* Research, synthesis and review stages
\* ------------------------------------------------------------------------

Call(worker, key, parts) ==
    calls' = Append(calls, [worker |-> worker, key |-> key, parts |-> parts])

\* ctx = format_docs_for_prompt(hybrid_search(..., q, ...)): the context the
\* tool formats is a function of the question it is called with
ContextOf(q) == IF q = "q1" THEN "ctx1" ELSE "ctx2"

\* outcomes of the rag_system tool during the crew call: it writes the
\* context of the question to output/last_context.txt (lines 175-178), or it
\* fails (search, formatting or the write) and leaves the file as it was
ToolOutcomes == {"wrote", "failed"}

\* output/last_context.txt after the tool ran for question q
ToolWrites(q, tool, file) ==
    IF tool = "wrote" THEN [text |-> ContextOf(q), from |-> "own"]
    ELSE file

\* The file has one fixed path shared by every run in the working
\* directory: the rag_system tool of a run executing at the same time (other
\* is its question) may write between this run's tool and this run's read.
OtherRuns == {"none"} \cup Questions

FileAtRead(file, other) ==
    IF other = "none" THEN file
    ELSE [text |-> ContextOf(other), from |-> "concurrent"]

\* with open("output/last_context.txt") ... except FileNotFoundError ...
\* except Exception as e (Streamlit flow)
st_read_context(file, readErr) ==
    IF file = NoFile THEN <<"Context file not available">>
    ELSE IF readErr # "" THEN <<"Error reading context: ", readErr>>
    ELSE <<file>>

\* who produced the context the stage returns
ExposedFrom(file, readErr) ==
    IF file.text = NoFile \/ readErr # "" THEN "placeholder" ELSE file.from

CurrentFile == [text |-> last_context, from |-> retrieval.file]

st_rag_analysis ==
    /\ pc = "rag_analysis"
    /\ entry = "streamlit"
    /\ Executed("rag_analysis")
    /\ Invoke("rag_crew")
    /\ Call("rag_crew", "question", <<state.question_input>>)
    /\ \E r \in CrewReplies(RagOutputs), tool \in ToolOutcomes,
          other \in OtherRuns, readErr \in {"", "io"} :
          LET f == FileAtRead(ToolWrites(state.question_input, tool,
                                         CurrentFile), other)
          IN /\ last_context' = f.text
             /\ IF r.kind = "error"
                THEN /\ raised' = r.err
                     /\ pc' = "raised"
                     /\ retrieval' = [retrieval EXCEPT !.tool = tool,
                                                       !.file = f.from]
                     /\ UNCHANGED <<state, payload>>
                ELSE /\ state' = [state EXCEPT !.rag_result = r.raw]
                     /\ payload' = [rag_context |-> st_read_context(f.text, readErr),
                                    rag_result  |-> <<r.raw>>,
                                    question    |-> <<state.question_input>>]
                     /\ retrieval' = [tool |-> tool, file |-> f.from,
                                      exposed |-> ExposedFrom(f, readErr)]
                     /\ raised' = raised
                     /\ pc' = Listener(entry, "rag_analysis")
    /\ UNCHANGED <<entry, execution_history, results, tool_output, question, ui, run, earlier, cancel, lastPrompt, signal, lastReply, verdicts, outcome>>

\* main.py opens the file without a handler: a missing or unreadable file
\* raises before state.rag_result is assigned
cli_rag_analysis ==
    /\ pc = "rag_analysis"
    /\ entry = "cli"
    /\ Executed("rag_analysis")
    /\ Invoke("rag_crew")
    /\ Call("rag_crew", "question", <<state.question_input>>)
    /\ \E r \in CrewReplies(RagOutputs), tool \in ToolOutcomes,
          other \in OtherRuns, readErr \in {"", "io"} :
          LET f == FileAtRead(ToolWrites(state.question_input, tool,
                                         CurrentFile), other)
          IN /\ last_context' = f.text
             /\ IF r.kind = "error"
                THEN /\ raised' = r.err
                     /\ pc' = "raised"
                     /\ retrieval' = [retrieval EXCEPT !.tool = tool,
                                                       !.file = f.from]
                     /\ UNCHANGED <<state, payload>>
                ELSE IF f.text = NoFile \/ readErr # ""
                THEN /\ raised' = IF f.text = NoFile THEN "FileNotFoundError"
                                  ELSE readErr
                     /\ pc' = "raised"
                     /\ retrieval' = [retrieval EXCEPT !.tool = tool,
                                                       !.file = f.from]
                     /\ UNCHANGED <<state, payload>>
                ELSE /\ state' = [state EXCEPT !.rag_result = r.raw]
                     /\ payload' = [rag_context |-> <<f.text>>,
                                    rag_result  |-> <<r.raw>>,
                                    question    |-> <<state.question_input>>]
                     /\ retrieval' = [tool |-> tool, file |-> f.from,
                                      exposed |-> f.from]
                     /\ raised' = raised
                     /\ pc' = Listener(entry, "rag_analysis")
    /\ UNCHANGED <<entry, execution_history, results, tool_output, question, ui, run, earlier, cancel, lastPrompt, signal, lastReply, verdicts, outcome>>

\* a web analyst that is handed the knowledge-base answer as its query
WebInputUsesRagResult(st, pl) == pl.rag_result

\* inputs={"question": self.state.question_input}
WebInput(st, pl) == <<st.question_input>>

\* a stage that resets the knowledge-base answer while storing its own result
WebResultWrittenClearsRag(st, raw) ==
    [st EXCEPT !.web_result = raw, !.rag_result = ""]

\* self.state.web_result = result.raw
WebResultWritten(st, raw) == [st EXCEPT !.web_result = raw]

web_analysis ==
    /\ pc = "web_analysis"
    /\ Executed("web_analysis")
    /\ Invoke("web_crew")
    /\ Call("web_crew", "question", WebInput(state, payload))
    /\ \E r \in CrewReplies(WebOutputs) :
          IF r.kind = "error"
          THEN /\ raised' = r.err
               /\ pc' = "raised"
               /\ UNCHANGED <<state, payload>>
          ELSE /\ state' = WebResultWritten(state, r.raw)
               /\ payload' = [web_result |-> <<r.raw>>] @@ payload
               /\ raised' = raised
               /\ pc' = Listener(entry, "web_analysis")
    /\ UNCHANGED <<entry, execution_history, results, tool_output, question, ui, run, earlier, cancel, retrieval, lastPrompt, signal, lastReply, last_context, verdicts, outcome>>

\* the aggregate without the web result
AggregatedNoWeb(st) == <<"RAG Result: ", st.rag_result>>

\* aggregated = f"RAG Result: {rag_result}\n\nWeb Result: {web_result}"
Aggregated(st) ==
    <<"RAG Result: ", st.rag_result, "\n\nWeb Result: ", st.web_result>>

\* state.all_results is assigned before the crew runs, so it stays set when
\* the crew raises
aggregate_results ==
    /\ pc = "aggregate_results"
    /\ Executed("aggregate_results")
    /\ Invoke("doc_crew")
    /\ Call("doc_crew", "paper", Aggregated(state))
    /\ \E r \in CrewReplies(DocOutputs) :
          IF r.kind = "error"
          THEN /\ state' = [state EXCEPT !.all_results = Aggregated(state)]
               /\ raised' = r.err
               /\ pc' = "raised"
               /\ UNCHANGED payload
          ELSE /\ state' = [state EXCEPT !.all_results = Aggregated(state),
                                         !.document = r.raw]
               /\ payload' = [doc_context |-> Aggregated(state),
                              doc_result  |-> <<r.raw>>] @@ payload
               /\ raised' = raised
               /\ pc' = Listener(entry, "aggregate_results")
    /\ UNCHANGED <<entry, execution_history, results, tool_output, question, ui, run, earlier, cancel, retrieval, lastPrompt, signal, lastReply, last_context, verdicts, outcome>>

\* inputs={"document": self.state.document}
BiasInput(st) == <<st.document>>

bias_check ==
    /\ pc = "bias_check"
    /\ Executed("bias_check")
    /\ Invoke("bias_crew")
    /\ Call("bias_crew", "document", BiasInput(state))
    /\ \E r \in CrewReplies(BiasOutputs) :
          IF r.kind = "error"
          THEN /\ raised' = r.err
               /\ pc' = "raised"
               /\ UNCHANGED <<state, payload>>
          ELSE /\ state' = [state EXCEPT !.final_doc = r.raw]
               /\ payload' = [bias_context |-> <<state.document>>,
                              bias_result  |-> <<r.raw>>] @@ payload
               /\ raised' = raised
               /\ pc' = Listener(entry, "bias_check")
    /\ UNCHANGED <<entry, execution_history, results, tool_output, question, ui, run, earlier, cancel, retrieval, lastPrompt, signal, lastReply, last_context, verdicts, outcome>>

\* update_ui (Streamlit) / self.plot() (command line); returns the payload
plot_generation ==
    /\ pc = "plot_generation"
    /\ Executed("plot_generation")
    /\ pc' = Listener(entry, "plot_generation")
    /\ UNCHANGED <<entry, execution_history, results, tool_output, question, ui, run, earlier, cancel, retrieval, lastPrompt, state, payload, signal, lastReply, raised,
                   last_context, invoked, calls, verdicts, outcome>>

\* ------------------------------------------------------------------------
\* Callers of kickoff()
\* ------------------------------------------------------------------------

\* a handler that reports an exception of the flow as a technical rejection
st_classifyExceptionAsRejection(st, exc) ==
    IF exc # ""
    THEN [result |-> "rejected", banner |-> "Errore Tecnico",
          detail |-> <<exc>>]
    ELSE IF st.validation_error # ""
    THEN [result |-> "rejected", banner |-> "Errore Tecnico",
          detail |-> st.error_message]
    ELSE IF st.final_doc = ""
    THEN [result |-> "failed",
          banner |-> "Errore durante l'esecuzione del pipeline. Riprova.",
          detail |-> <<>>]
    ELSE [result |-> "completed", banner |-> "Completed!",
          detail |-> <<st.final_doc>>]

\* a handler that hands out the unreviewed document of the synthesis stage
st_classifyShowsDraft(st, exc) ==
    IF exc # ""
    THEN [result |-> "exception", banner |-> "Error during execution",
          detail |-> <<exc>>]
    ELSE IF st.validation_error # ""
    THEN [result |-> "rejected",
          banner |-> IF st.validation_error = "aeronautic"
                     THEN "Validazione Aeronautica Fallita"
                     ELSE IF st.validation_error = "ethical"
                     THEN "Validazione Etica Fallita"
                     ELSE "Errore Tecnico",
          detail |-> st.error_message]
    ELSE IF st.document = ""
    THEN [result |-> "failed",
          banner |-> "Errore durante l'esecuzione del pipeline. Riprova.",
          detail |-> <<>>]
    ELSE [result |-> "completed", banner |-> "Completed!",
          detail |-> <<st.document>>]

\* "Execute Pipeline" handler: classification of the finished flow
\* (if validation_error / elif not final_doc / else) and except Exception
st_classify(st, exc) ==
    IF exc # ""
    THEN [result |-> "exception", banner |-> "Error during execution",
          detail |-> <<exc>>]
    ELSE IF st.validation_error # ""
    THEN [result |-> "rejected",
          banner |-> IF st.validation_error = "aeronautic"
                     THEN "Validazione Aeronautica Fallita"
                     ELSE IF st.validation_error = "ethical"
                     THEN "Validazione Etica Fallita"
                     ELSE "Errore Tecnico",
          detail |-> st.error_message]
    ELSE IF st.final_doc = ""
    THEN [result |-> "failed",
          banner |-> "Errore durante l'esecuzione del pipeline. Riprova.",
          detail |-> <<>>]
    ELSE [result |-> "completed", banner |-> "Completed!",
          detail |-> <<st.final_doc>>]

\* The handler updates the same components after kickoff(): progress_bar
\* .empty() / status_text.empty() in the rejected and failed branches,
\* progress_bar.progress(1.0) / status_text.success() in the success
\* branch. TRUE when these calls go through.
HandlerUi(u) == IF u = "failing" THEN {TRUE, FALSE} ELSE {TRUE}

\* st.session_state.execution_history.append({...}), last statement of the
\* success branch
HistoryEntry(q, st) ==
    [question       |-> q,
     rag_result     |-> st.rag_result,
     web_result     |-> st.web_result,
     document       |-> st.document,
     final_document |-> st.final_doc]

st_execute_pipeline ==
    /\ entry = "streamlit"
    /\ pc \in {"returned", "raised"}
    /\ \E shown \in HandlerUi(ui) :
          LET exc == IF pc = "raised" THEN raised
                     ELSE IF shown THEN "" ELSE UiError
          IN  /\ outcome' = st_classify(state, exc)
              /\ raised' = exc
              /\ execution_history' =
                    IF st_classify(state, exc).result = "completed"
                    THEN Append(execution_history, HistoryEntry(question, state))
                    ELSE execution_history
    /\ pc' = "reported"
    /\ UNCHANGED <<emitted, entry, results, tool_output, question, ui, run,
                   earlier, cancel, retrieval, lastPrompt, state, payload,
                   signal, lastReply, last_context, invoked, calls, execs,
                   total, verdicts>>

\* main.py kickoff(): nothing is inspected after the flow; an exception
\* leaves kickoff() uncaught
cli_kickoff ==
    /\ entry = "cli"
    /\ pc \in {"returned", "raised"}
    /\ outcome' = IF pc = "raised"
                  THEN [result |-> "exception", banner |-> "Traceback",
                        detail |-> <<raised>>]
                  ELSE [result |-> "completed", banner |-> "",
                        detail |-> <<>>]
    /\ pc' = "reported"
    /\ UNCHANGED <<emitted, execution_history, entry, results, tool_output, question, ui, run, earlier, cancel, retrieval, lastPrompt, state, payload, signal, lastReply, raised,
                   last_context, invoked, calls, execs, total, verdicts>>

\* ------------------------------------------------------------------------
\* Progress components and further runs (Streamlit)
\* ------------------------------------------------------------------------

\* update_ui is the first statement of the method and stands outside every
\* try block: when the component raises, the method ends there and the
\* exception leaves kickoff()
update_ui_raises ==
    /\ entry = "streamlit"
    /\ ui = "failing"
    /\ pc \in UiStages
    /\ Counted(pc)
    /\ emitted' = emitted
    /\ raised' = UiError
    /\ pc' = "raised"
    /\ UNCHANGED <<entry, execution_history, results, tool_output, question, ui, run, earlier, cancel, retrieval, lastPrompt, state, payload,
                   signal, lastReply, last_context, invoked, calls, verdicts,
                   outcome>>

\* a flow whose state is the previous flow's state with the new question
StaleState(q) == [state EXCEPT !.question_input = q]

\* aeronautic_rag_flow = AeronauticRagFlow();
\* aeronautic_rag_flow.state.question_input = question
FreshState(q) == [AeronauticRagState EXCEPT !.question_input = q]

\* the user presses "Execute Pipeline" again: a new flow object with new
\* components; output/last_context.txt is what the earlier runs left
st_new_run ==
    /\ entry = "streamlit"
    /\ pc = "reported"
    /\ run < MaxRuns
    /\ Len(execution_history) < MaxHistory
    /\ run' = run + 1
    /\ emitted' = <<>>
    /\ cancel' = FALSE
    /\ earlier' = earlier \cup {outcome.result}
    /\ question' \in Questions
    /\ state' = FreshState(question')
    /\ ui' \in UiOf(entry)
    /\ pc' = "starting_procedure"
    /\ payload' = EmptyPayload
    /\ signal' = ""
    /\ lastReply' = NoReply
    /\ lastPrompt' = ""
    /\ raised' = ""
    /\ invoked' = [w \in Workers |-> 0]
    /\ calls' = <<>>
    /\ execs' = [s \in Stages |-> 0]
    /\ total' = 0
    /\ verdicts' = [relevance |-> {}, ethics |-> {}]
    /\ outcome' = [result |-> "running", banner |-> "", detail |-> <<>>]
    /\ retrieval' = [tool |-> "none", exposed |-> "",
                     file |-> IF last_context = NoFile THEN "none"
                              ELSE "earlier"]
    /\ UNCHANGED <<entry, last_context, results, tool_output,
                   execution_history>>

\* The user asks to cancel the run after a stage has finished and before
\* the next one starts. No flow method, listener or caller reads a
\* cancellation request: the request changes nothing but itself.
request_cancel ==
    /\ pc \in Stages
    /\ total >= 1
    /\ ~cancel
    /\ cancel' = TRUE
    /\ UNCHANGED <<emitted, execution_history, entry, results, tool_output, question, ui, run, earlier, retrieval, lastPrompt,
                   state, payload, signal, lastReply, raised, last_context,
                   invoked, calls, execs, total, verdicts, outcome, pc>>

\* ------------------------------------------------------------------------
\* Specification
\* ------------------------------------------------------------------------

Next ==
    \/ starting_procedure
    \/ generate_question
    \/ st_aeronautic_question_analysis
    \/ st_ethic_question_analysis
    \/ handle_validation_error
    \/ cli_aeronautic_question_analysis
    \/ cli_ethic_question_analysis
    \/ st_rag_analysis
    \/ cli_rag_analysis
    \/ web_analysis
    \/ aggregate_results
    \/ bias_check
    \/ plot_generation
    \/ st_execute_pipeline
    \/ cli_kickoff
    \/ update_ui_raises
    \/ st_new_run
    \/ request_cancel

Spec == Init /\ [][Next]_vars

\* Every stage and caller step is a synchronous call of the single-threaded
\* flow: a step that can run does run.
FairSpec == Spec /\ WF_vars(Next)

TypeOK ==
    /\ entry \in EntryPoints
    /\ pc \in Stages \cup {"returned", "raised", "reported"}
    /\ state.question_input \in Questions
    /\ outcome.result \in {"running", "completed", "rejected", "failed", "exception"}
    /\ total \in 0..MaxTotal
    /\ question \in Questions
    /\ ui \in UiOf(entry)
    /\ run \in 1..MaxRuns
    /\ cancel \in BOOLEAN
    /\ retrieval \in [tool : {"none"} \cup ToolOutcomes,
                       exposed : {"", "own", "earlier", "concurrent", "placeholder"},
                       file : {"none", "own", "earlier", "concurrent"}]
    /\ earlier \subseteq {"completed", "rejected", "failed", "exception"}
    /\ Len(execution_history) <= MaxHistory
    /\ \A i \in 1..Len(emitted) : emitted[i] \in 0..100


\* ------------------------------------------------------------------------
\* Properties
\* ------------------------------------------------------------------------

Terminal == pc = "reported"

Has(parts, x) == \E i \in 1..Len(parts) : parts[i] = x

NoResearchWorkerInvoked == \A w \in ResearchWorkers : invoked[w] = 0

\* C1: in a run where the relevance judge's answer was classified negative,
\* the ethics judge and the four research workers are never invoked, and the
\* run ends rejected with the relevance gate's error kind (the spec's
\* "domain", written "aeronautic" by the code).
C1_NegativeRelevanceRejects ==
    "negative" \in verdicts.relevance =>
        /\ invoked["ethics_judge"] = 0
        /\ NoResearchWorkerInvoked
        /\ Terminal => /\ outcome.result = "rejected"
                       /\ state.validation_error = AeronauticKind

\* C2: in a run where the relevance judge was classified positive and the
\* ethics judge negative, no research worker is ever invoked and the run ends
\* rejected with the ethics gate's error kind (the spec's "ethics", written
\* "ethical" by the code).
C2_NegativeEthicsRejects ==
    ("positive" \in verdicts.relevance /\ "negative" \in verdicts.ethics) =>
        /\ NoResearchWorkerInvoked
        /\ Terminal => /\ outcome.result = "rejected"
                       /\ state.validation_error = EthicalKind

WorkerOrder == <<"rag_crew", "web_crew", "doc_crew", "bias_crew">>

\* C3: the research workers are invoked in the order knowledge-base answer,
\* web research, synthesis, bias review: the invocations of a run are a
\* prefix of that order (no repeat, no skip, no reorder), they only happen
\* after both gates passed, each one only after its predecessor returned its
\* result, and a completed run has made all four.
C3_WorkersInFixedOrder ==
    /\ Len(calls) <= Len(WorkerOrder)
    /\ \A i \in 1..Len(calls) : calls[i].worker = WorkerOrder[i]
    /\ \A w \in ResearchWorkers : invoked[w] <= 1
    /\ Len(calls) >= 1 => /\ "positive" \in verdicts.relevance
                          /\ "positive" \in verdicts.ethics
    /\ Len(calls) >= 2 => "rag_result" \in DOMAIN payload
    /\ Len(calls) >= 3 => "web_result" \in DOMAIN payload
    /\ Len(calls) >= 4 => "doc_result" \in DOMAIN payload
    /\ pc = "plot_generation" => Len(calls) = 4
    /\ outcome.result = "completed" => Len(calls) = 4

C3_Witness ==
    /\ Terminal
    /\ outcome.result = "completed"
    /\ Len(calls) = 4
    /\ calls[4].worker = "bias_crew"

\* output of the stage that precedes the i-th research worker call
PriorOutput(i) ==
    CASE i = 2 -> state.rag_result
      [] i = 3 -> state.web_result
      [] i = 4 -> state.document
      [] OTHER -> ""

\* C4 as stated: every worker call after the first has the previous stage's
\* (non-empty) output in its input.
C4_EachCallReceivesPriorOutput ==
    \A i \in 2..Len(calls) :
        PriorOutput(i) # "" => Has(calls[i].parts, PriorOutput(i))

\* C4 amended: the web-research call receives the question only, not the
\* knowledge-base answer; the synthesis call's input contains the
\* knowledge-base answer and the web-research answer; the bias-review call's
\* input is the synthesized document.
C4_InputsOfWorkerCalls ==
    \A i \in 1..Len(calls) :
        /\ calls[i].worker = "web_crew" =>
              /\ calls[i].parts = <<state.question_input>>
              /\ state.rag_result # "" => ~Has(calls[i].parts, state.rag_result)
        /\ calls[i].worker = "doc_crew" =>
              /\ Has(calls[i].parts, state.rag_result)
              /\ Has(calls[i].parts, state.web_result)
        /\ calls[i].worker = "bias_crew" =>
              calls[i].parts = <<state.document>>

C4_Witness ==
    /\ Len(calls) = 4
    /\ state.rag_result = "kb1"
    /\ state.web_result = "web1"
    /\ state.document = "doc1"

FinalDocSet == state.final_doc # ""

ValidationErrorSet == state.validation_error # ""

\* C5 as stated: at every terminal state exactly one of final_doc and
\* validation_error is set.
C5_ExactlyOneAtTerminal ==
    Terminal => (FinalDocSet /\ ~ValidationErrorSet)
                \/ (~FinalDocSet /\ ValidationErrorSet)

\* C5 amended: at every terminal state final_doc and validation_error are
\* never both set; a run reported rejected has validation_error set; a run
\* the Streamlit handler reports completed has final_doc set; a run whose
\* reviewed document is empty, or that ended by an exception of a judge or
\* worker call, has neither set; validation_error is set only in a run
\* reported rejected or ended by an exception of a progress component after
\* the rejection was recorded.
C5_AtMostOneAtTerminal ==
    Terminal =>
        /\ ~(FinalDocSet /\ ValidationErrorSet)
        /\ outcome.result = "rejected" => ValidationErrorSet
        /\ (entry = "streamlit" /\ outcome.result = "completed") => FinalDocSet
        /\ outcome.result = "failed" => (~FinalDocSet /\ ~ValidationErrorSet)
        /\ (outcome.result = "exception" /\ raised # UiError) =>
              (~FinalDocSet /\ ~ValidationErrorSet)
        /\ ValidationErrorSet =>
              \/ outcome.result = "rejected"
              \/ outcome.result = "exception" /\ raised = UiError

C5_Witness ==
    /\ Terminal
    /\ entry = "streamlit"
    /\ outcome.result = "exception"
    /\ ~FinalDocSet
    /\ ~ValidationErrorSet
    /\ Len(calls) >= 1

JudgeCallFailed == "error" \in (verdicts.relevance \cup verdicts.ethics)

\* C6: when the judge call of a gating stage fails, validation_error is
\* "technical", error_message embeds the error text, no exception leaves the
\* flow and the run ends as a rejection, in every entry point.
C6_JudgeFailureIsTechnicalRejection ==
    JudgeCallFailed =>
        /\ state.validation_error = TechnicalKind
        /\ Has(state.error_message, lastReply.err)
        /\ raised = ""
        /\ pc # "raised"
        /\ Terminal => outcome.result = "rejected"

\* the letters of the affirmative token in either case
TokenLetters == <<{"t", "T"}, {"r", "R"}, {"u", "U"}, {"e", "E"}>>

\* the answer holds the token "true" in some mix of upper and lower case
HasTokenAnyCase(content) ==
    \E i \in 1..(Len(content) - 3) :
        \A j \in 1..4 : content[i + j - 1] \in TokenLetters[j]

PastRelevanceGate ==
    pc \in {"ethic_question_analysis", "rag_analysis", "web_analysis",
            "aggregate_results", "bias_check", "plot_generation"}

\* C7: a gate classifies the judge's answer as positive (signal "success" or
\* "success-ethical") exactly when the answer contains the token "true"
\* ignoring case; with any other answer the run is not past the gate.
C7_PositiveIffTrueToken ==
    lastReply.kind = "text" =>
        /\ (signal \in {"success", "success-ethical"})
              <=> HasTokenAnyCase(lastReply.content)
        /\ ~HasTokenAnyCase(lastReply.content) => ~PastRelevanceGate

C7_Witness ==
    /\ lastReply.content = <<" ", "T", "R", "U", "E", "\n">>
    /\ signal = "success-ethical"
    /\ pc = "rag_analysis"

\* C8: no stage is executed more than once in a run, at most eight stage
\* executions occur, and after a negative gate verdict the run never is back
\* at question intake or the relevance gate.
C8_NoStageRevisited ==
    /\ \A s \in Stages : execs[s] <= 1
    /\ total <= 8
    /\ "negative" \in (verdicts.relevance \cup verdicts.ethics) =>
          pc \notin {"starting_procedure", "generate_question",
                     "aeronautic_question_analysis"}

\* C9: every run eventually reaches a terminal outcome.
C9_RunTerminates == <>Terminal

ResearchWorkerThrew == raised # "" /\ raised # UiError /\ Len(calls) >= 1

GateBanners == {"Validazione Aeronautica Fallita", "Validazione Etica Fallita",
                "Errore Tecnico"}

\* C10: when both gates passed and a research, synthesis or review worker
\* throws, the run ends in a failure outcome distinct from a validation
\* rejection: validation_error stays unset and the caller reports no gate
\* failure.
C10_WorkerFailureIsNotRejection ==
    ResearchWorkerThrew =>
        /\ "positive" \in verdicts.relevance
        /\ "positive" \in verdicts.ethics
        /\ state.validation_error = ""
        /\ Terminal => /\ outcome.result = "exception"
                       /\ outcome.banner \notin GateBanners
                       /\ Has(outcome.detail, raised)

C10_Witness ==
    /\ Terminal
    /\ entry = "streamlit"
    /\ raised = "transport"
    /\ Len(calls) = 2
    /\ calls[2].worker = "web_crew"
    /\ outcome.result = "exception"

\* C11: every exception of a worker or of retrieval is caught at the stage
\* that made the call; no exception leaves the flow's kickoff(), for gating
\* stages and for research, synthesis and review stages alike.
C11_NoExceptionLeavesKickoff ==
    /\ pc # "raised"
    /\ raised = ""
    /\ outcome.result # "exception"

Routers == {"aeronautic_question_analysis", "ethic_question_analysis"}

\* next stage (or "returned") for each stage and each signal it emits; a
\* method that is not a router emits its own completion
RouteTable(stage, trig) ==
    CASE stage = "starting_procedure"      -> "generate_question"
      [] stage = "generate_question"       -> "aeronautic_question_analysis"
      [] stage \in Routers /\ trig = "success"         -> "ethic_question_analysis"
      [] stage \in Routers /\ trig = "success-ethical" -> "rag_analysis"
      [] stage \in Routers /\ trig = "validation_failed"
                                            -> "handle_validation_error"
      [] stage \in Routers /\ trig = "retry" -> "starting_procedure"
      [] stage = "rag_analysis"            -> "web_analysis"
      [] stage = "web_analysis"            -> "aggregate_results"
      [] stage = "aggregate_results"       -> "bias_check"
      [] stage = "bias_check"              -> "plot_generation"
      [] OTHER                             -> "returned"

\* a stage ran and returned (it did not raise); a step that records the
\* user's cancellation request is not a stage's
StageReturns == pc \in Stages /\ pc' # "raised" /\ cancel' = cancel

\* C12: routing is a function of the originating stage and the signal it
\* emitted only: every step of every run, whatever the question, the result
\* fields, the error fields, the entry point and the history, goes where the
\* one table RouteTable sends that (stage, signal) pair.
C12_RoutingIsPure ==
    [][StageReturns =>
          pc' = RouteTable(pc, IF pc \in Routers THEN signal' ELSE pc)]_vars

C12_Witness ==
    /\ pc = "handle_validation_error"
    /\ signal = "validation_failed"
    /\ state.validation_error = "ethical"
    /\ state.question_input = "q2"

\* signals the routers of each flow return
SignalsOf(e) ==
    IF e = "streamlit" THEN {"success", "success-ethical", "validation_failed"}
    ELSE {"success", "success-ethical", "retry"}

EndStages == {"plot_generation", "handle_validation_error"}

\* C13: the wiring is total: every signal a router of the flow can return
\* has a listening stage, every stage but the two end stages hands over to a
\* next stage when it returns, and a run that stops has a terminal outcome.
C13_WiringIsTotal ==
    [][/\ \A sig \in SignalsOf(entry) : Listener(entry, sig) \in Stages
       /\ (StageReturns /\ pc \notin EndStages) => pc' \in Stages
       /\ (StageReturns /\ pc \in EndStages) => pc' = "returned"
       /\ pc' = "reported" => outcome'.result # "running"]_vars

C13_Witness ==
    /\ entry = "cli"
    /\ signal = "retry"
    /\ pc = "starting_procedure"
    /\ execs["starting_procedure"] = 1

\* both judges answered affirmatively and all four crews returned
AllWorkersReturned ==
    /\ Terminal
    /\ "positive" \in verdicts.relevance
    /\ "positive" \in verdicts.ethics
    /\ Len(calls) = 4
    /\ raised = ""

\* the flow holds the reviewer's output and the intermediate artifacts
ArtifactsKept ==
    /\ state.final_doc = payload.bias_result[1]
    /\ state.document = payload.doc_result[1]
    /\ state.document = calls[4].parts[1]
    /\ state.web_result = payload.web_result[1]
    /\ state.rag_result = payload.rag_result[1]
    /\ state.all_results = calls[3].parts

Rejected == Terminal /\ outcome.result = "rejected"

\* C15 as stated: at every rejected terminal state validation_error is one
\* of "domain", "ethics", "technical".
C15_KindIsDomainEthicsTechnical ==
    Rejected => state.validation_error \in {"domain", "ethics", "technical"}

\* C15 amended: at every rejected terminal state validation_error is one of
\* exactly "aeronautic", "ethical", "technical" and identifies the failing
\* gate: "aeronautic" when the relevance judge was negative, "ethical" when
\* the ethics judge was negative, "technical" when a judge call failed; and
\* error_message is not empty.
C15_KindIdentifiesGate ==
    Rejected =>
        /\ state.validation_error \in {"aeronautic", "ethical", "technical"}
        /\ (state.validation_error = "aeronautic")
              <=> ("negative" \in verdicts.relevance)
        /\ (state.validation_error = "ethical")
              <=> ("negative" \in verdicts.ethics)
        /\ (state.validation_error = "technical") <=> JudgeCallFailed
        /\ Len(state.error_message) >= 1
        /\ \A i \in 1..Len(state.error_message) : state.error_message[i] # ""
        /\ outcome.detail = state.error_message

C15_Witness ==
    /\ Rejected
    /\ state.validation_error = "ethical"
    /\ "positive" \in verdicts.relevance
    /\ "negative" \in verdicts.ethics

\* a gating stage ran, its judge call returned and the answer holds the token
GatePositiveStep ==
    /\ pc \in Routers
    /\ StageReturns
    /\ lastReply'.kind = "text"
    /\ HasTokenAnyCase(lastReply'.content)

\* C16: a gating stage whose judge answer is classified positive leaves
\* validation_error, error_message and every result field (the whole state
\* and the payload) unchanged and only produces its routing signal.
C16_PositiveGateChangesNothing ==
    [][GatePositiveStep =>
          /\ state' = state
          /\ payload' = payload
          /\ calls' = calls
          /\ outcome' = outcome
          /\ signal' = IF pc = "aeronautic_question_analysis"
                       THEN "success" ELSE "success-ethical"]_vars

C16_Witness ==
    /\ pc = "rag_analysis"
    /\ signal = "success-ethical"
    /\ lastReply.content = <<"U", "n", "t", "r", "u", "e">>
    /\ state.validation_error = ""
    /\ state.error_message = <<>>

ResultFields == {"rag_result", "web_result", "all_results", "document", "final_doc"}

StateFields == DOMAIN AeronauticRagState

\* the stage that assigns each result field
OwnerOf(f) ==
    CASE f = "rag_result"  -> "rag_analysis"
      [] f = "web_result"  -> "web_analysis"
      [] f = "all_results" -> "aggregate_results"
      [] f = "document"    -> "aggregate_results"
      [] f = "final_doc"   -> "bias_check"

\* the fields each stage assigns
OwnedBy(stage) ==
    IF stage \in Routers THEN {"validation_error", "error_message"}
    ELSE {f \in ResultFields : OwnerOf(f) = stage}

QuestionCalls == {i \in 1..Len(calls) : calls[i].key = "question"}

QuestionIsCallersValue ==
    /\ state.question_input = question
    /\ \A i \in QuestionCalls : calls[i].parts = <<question>>
    /\ lastPrompt \in {"", question}

\* a step that stays within one run
WithinRun == run' = run

UiFailureEndedRun == raised = UiError

\* C19: the attached status / progress components never decide how a run
\* goes: no exception of a component ends a stage, so a run with failing
\* components still consults the relevance judge before it ends, exactly as
\* a run with working components does.
C19_ProgressIsObservational ==
    /\ ~UiFailureEndedRun
    /\ (Terminal /\ entry = "streamlit") => invoked["relevance_judge"] >= 1

\* ------------------------------------------------------------------------
\* C20  every run starts from a freshly created state
\* ------------------------------------------------------------------------

\* the result fields and the validation-error fields of the state are empty
StateIsEmpty ==
    /\ \A f \in ResultFields \ {"all_results"} : state[f] = ""
    /\ state.all_results = <<>>
    /\ state.validation_error = ""
    /\ state.error_message = <<>>

\* the step that starts a run after earlier runs of the session
NewRunStep == run' = run + 1

\* both gates classified the question of the current run as acceptable
ValidRun ==
    /\ verdicts.relevance = {"positive"}
    /\ verdicts.ethics = {"positive"}

\* C20: a run that follows earlier runs starts with empty result fields and
\* empty validation-error fields and with the new question; nothing is
\* carried over, so a Streamlit run whose question passed both gates is
\* never reported as rejected, and whatever its state holds at any point
\* was written by a stage of that run.
C20_RunStartsFromFreshState ==
    /\ [][NewRunStep =>
             /\ StateIsEmpty'
             /\ state'.question_input = question'
             /\ pc' = "starting_procedure"]_vars
    /\ [](pc = "starting_procedure" /\ total = 0 => StateIsEmpty)
    /\ [](ValidRun /\ entry = "streamlit" =>
             /\ state.validation_error = ""
             /\ outcome.result # "rejected")
    /\ [](\A f \in ResultFields :
             (state[f] # AeronauticRagState[f]) => execs[OwnerOf(f)] >= 1)

\* the first run was rejected by the relevance gate, the second run passed
\* both gates and is reported as completed
C20_Witness ==
    /\ run = 2
    /\ earlier = {"rejected"}
    /\ ValidRun
    /\ Terminal
    /\ outcome.result = "completed"
    /\ state.final_doc # ""

\* ------------------------------------------------------------------------
\* C21  concurrent runs share no run state
\* ------------------------------------------------------------------------

\* the knowledge-base stage has returned its payload in this run
ContextExposed == retrieval.exposed # ""

\* C21: whatever a run exposes depends on that run's own question and
\* worker results only: the retrieved context returned by the
\* knowledge-base stage is never one that the retrieval tool of a run
\* executing at the same time produced for its (different) question.
C21_ConcurrentRunsAreIsolated ==
    (ContextExposed /\ retrieval.exposed = "concurrent") =>
        payload.rag_context = <<ContextOf(question)>>

\* ------------------------------------------------------------------------
\* C22  a retrieval failure fails the knowledge-base stage
\* ------------------------------------------------------------------------

\* the retrieval tool failed before handing its context over, or the stage
\* could not read the context back
RetrievalFailed ==
    \/ retrieval.tool = "failed"
    \/ retrieval.exposed = "placeholder"

\* C22: when retrieval fails during the knowledge-base stage (search,
\* formatting or hand-off of the context), the stage fails like a worker
\* failure and the run never reaches the web-research stage.
C22_RetrievalFailureFailsStage ==
    RetrievalFailed =>
        /\ pc # "web_analysis"
        /\ execs["web_analysis"] = 0

\* ------------------------------------------------------------------------
\* C23  a run can be cancelled between stages
\* ------------------------------------------------------------------------

\* a stage method starts executing
StageExecutes == total' # total \/ execs' # execs

\* C23: a cancellation requested after a stage has finished is checked
\* before the next stage executes: once it is requested, no further stage
\* executes and no worker is invoked in that run.
C23_CancelStopsNextStage ==
    [][(cancel /\ pc \in Stages) =>
          /\ ~StageExecutes
          /\ invoked' = invoked
          /\ calls' = calls]_vars

\* ------------------------------------------------------------------------
\* TrustedWebSearch (tools/custom_tool.py)
\* ------------------------------------------------------------------------

\* number of organic results of a search response
MaxOrganic == 2

\* A URL is a sequence of pieces; `in` of Python is computed on the pieces.
NoLink == <<>>

UWiki == <<"https://", "wikipedia", ".", "org", "/", "wiki">>

USub  == <<"https://", "en", ".", "wikipedia", ".", "org", "/">>

UPath == <<"https://", "evil", ".", "com", "/", "wikipedia", ".", "org">>

UHost == <<"https://", "wikipedia", ".", "org", ".", "evil", ".", "com", "/">>

UEvil == <<"https://", "evil", ".", "com", "/">>

\* _get_default_domains: 'wikipedia.org', ..., 'gov.it'
trusted_domains == {<<"wikipedia", ".", "org">>, <<"gov", ".", "it">>}

\* return any(domain in url for domain in self.trusted_domains)
is_trusted_domain(url) == \E d \in trusted_domains : Contains(url, d)

\* sections of the Serper response
SectionNames == {"organic", "knowledgeGraph", "peopleAlsoAsk", "relatedSearches"}

OrganicResults ==
    [link : {NoLink, UWiki, USub, UPath, UEvil},
     sitelinks : {<<>>, <<UWiki>>, <<UHost>>}]

OrganicLists ==
    UNION {[1..n -> OrganicResults] : n \in 0..MaxOrganic}

KnowledgeGraphs == [website : {NoLink, UWiki, UHost, UEvil}]

AskLists == {<<>>} \cup {<<[link |-> u]>> : u \in {NoLink, UWiki, UPath, UEvil}}

RelatedLists == {<<>>, <<"related query">>}

\* responses of self.serper_tool._run(search_query=...)
SearchResponses ==
    {r \in [keys : SUBSET SectionNames, organic : OrganicLists,
            knowledgeGraph : KnowledgeGraphs, peopleAlsoAsk : AskLists,
            relatedSearches : RelatedLists] :
        /\ "organic" \notin r.keys => r.organic = <<>>
        /\ "knowledgeGraph" \notin r.keys => r.knowledgeGraph.website = NoLink
        /\ "peopleAlsoAsk" \notin r.keys => r.peopleAlsoAsk = <<>>
        /\ "relatedSearches" \notin r.keys => r.relatedSearches = <<>>}

TrustedSitelinks(r) ==
    [link |-> r.link,
     sitelinks |-> SelectSeq(r.sitelinks, LAMBDA u : is_trusted_domain(u))]

process_organic_results(organic_results) ==
    LET kept == SelectSeq(organic_results, LAMBDA r : is_trusted_domain(r.link))
    IN  [i \in 1..Len(kept) |-> TrustedSitelinks(kept[i])]

\* if not link or self._is_trusted_domain(link)
process_people_also_ask(paa_results) ==
    SelectSeq(paa_results, LAMBDA r : r.link = NoLink \/ is_trusted_domain(r.link))

\* the entry when its website is trusted, None (the empty sequence) otherwise
process_knowledge_graph(kg) ==
    IF kg.website # NoLink /\ is_trusted_domain(kg.website)
    THEN <<kg>> ELSE <<>>

process_related_searches(related_results) == related_results

\* trusted_data of _run: a section is stored only when its filtered list is
\* not empty; relatedSearches is stored whenever the response has the key
TrustedData(res) ==
    LET organic == process_organic_results(res.organic)
        kg      == process_knowledge_graph(res.knowledgeGraph)
        paa     == process_people_also_ask(res.peopleAlsoAsk)
    IN  [keys |-> {k \in res.keys :
                     \/ k = "organic" /\ organic # <<>>
                     \/ k = "knowledgeGraph" /\ kg # <<>>
                     \/ k = "peopleAlsoAsk" /\ paa # <<>>
                     \/ k = "relatedSearches"},
         organic |-> organic,
         knowledgeGraph |-> kg,
         peopleAlsoAsk |-> paa,
         relatedSearches |-> process_related_searches(res.relatedSearches)]

\* _format_output: the header with the number of trusted sources, then the
\* sections present in trusted_data (the text layout is not modelled)
format_output(trusted_data) ==
    [header  |-> "TRUSTED SEARCH RESULTS",
     total   |-> Len(trusted_data.organic) + Len(trusted_data.knowledgeGraph),
     knowledgeGraph |-> IF "knowledgeGraph" \in trusted_data.keys
                        THEN trusted_data.knowledgeGraph ELSE <<>>,
     organic |-> IF "organic" \in trusted_data.keys
                 THEN trusted_data.organic ELSE <<>>,
     peopleAlsoAsk |-> IF "peopleAlsoAsk" \in trusted_data.keys
                       THEN trusted_data.peopleAlsoAsk ELSE <<>>,
     relatedSearches |-> IF "relatedSearches" \in trusted_data.keys
                         THEN trusted_data.relatedSearches ELSE <<>>]

\* "NO TRUSTED SOURCES FOUND\nTotal results available: {total_results}..."
NoTrustedSources(res) ==
    [header  |-> "NO TRUSTED SOURCES FOUND",
     total   |-> Len(res.organic),
     knowledgeGraph |-> <<>>, organic |-> <<>>, peopleAlsoAsk |-> <<>>,
     relatedSearches |-> <<>>]

\* if trusted_data: return self._format_output(...) else: return f"NO ..."
Run(res) ==
    LET trusted_data == TrustedData(res)
    IN  IF trusted_data.keys # {} THEN format_output(trusted_data)
        ELSE NoTrustedSources(res)

\* the flow is not running while the tool is examined on its own
FlowIdle ==
    /\ entry = "streamlit"
    /\ pc = "reported"
    /\ question = "q1"
    /\ state = [AeronauticRagState EXCEPT !.question_input = "q1"]
    /\ payload = EmptyPayload
    /\ signal = ""
    /\ lastReply = NoReply
    /\ lastPrompt = ""
    /\ raised = ""
    /\ last_context = NoFile
    /\ retrieval = [tool |-> "none", exposed |-> "", file |-> "none"]
    /\ invoked = [w \in Workers |-> 0]
    /\ calls = <<>>
    /\ execs = [s \in Stages |-> 0]
    /\ total = 0
    /\ verdicts = [relevance |-> {}, ethics |-> {}]
    /\ outcome = [result |-> "failed", banner |-> "", detail |-> <<>>]
    /\ ui = "working"
    /\ run = MaxRuns
    /\ earlier = {}
    /\ cancel = FALSE
    /\ emitted = <<>>
    /\ execution_history = <<>>

ToolInit ==
    /\ FlowIdle
    /\ results \in SearchResponses
    /\ tool_output = NoOutput

\* TrustedWebSearch._run(search_query)
TrustedWebSearch_run ==
    /\ tool_output = NoOutput
    /\ results # NoSearch
    /\ tool_output' = Run(results)
    /\ UNCHANGED <<entry, pc, state, payload, signal, lastReply, raised,
                   last_context, invoked, calls, execs, total, verdicts,
                   outcome, question, lastPrompt, ui, run, earlier,
                   retrieval, cancel, results, emitted,
                   execution_history>>

ToolNext == TrustedWebSearch_run

ToolSpec == ToolInit /\ [][ToolNext]_vars

\* ------------------------------------------------------------------------
\* C24  TrustedWebSearch returns only content from trusted domains
\* ------------------------------------------------------------------------

\* the host of a URL: the pieces between the scheme and the first "/"
HostOf(url) ==
    IF Len(url) < 2 THEN <<>>
    ELSE LET rest    == Tail(url)
             slashes == {i \in 1..Len(rest) : rest[i] = "/"}
             last    == IF slashes = {} THEN Len(rest)
                        ELSE (CHOOSE i \in slashes : \A j \in slashes : i <= j) - 1
         IN  SubSeq(rest, 1, last)

\* the host is the domain or one of its subdomains
HostIn(host, d) ==
    /\ Len(host) >= Len(d)
    /\ SubSeq(host, Len(host) - Len(d) + 1, Len(host)) = d
    /\ (Len(host) = Len(d) \/ host[Len(host) - Len(d)] = ".")

BelongsToTrustedDomain(url) == \E d \in trusted_domains : HostIn(HostOf(url), d)

Returned == tool_output # NoOutput

\* C24: every organic result, every sitelink and the knowledge-graph entry
\* of the output has a URL whose host belongs to a trusted domain, and every
\* People-Also-Ask entry has no link or a link of a trusted domain; a URL
\* that only contains a trusted domain name in an untrusted host or in its
\* path is not accepted.
C24_OnlyTrustedDomains ==
    Returned =>
        /\ \A i \in 1..Len(tool_output.organic) :
              /\ BelongsToTrustedDomain(tool_output.organic[i].link)
              /\ \A j \in 1..Len(tool_output.organic[i].sitelinks) :
                    BelongsToTrustedDomain(tool_output.organic[i].sitelinks[j])
        /\ \A i \in 1..Len(tool_output.knowledgeGraph) :
              BelongsToTrustedDomain(tool_output.knowledgeGraph[i].website)
        /\ \A i \in 1..Len(tool_output.peopleAlsoAsk) :
              \/ tool_output.peopleAlsoAsk[i].link = NoLink
              \/ BelongsToTrustedDomain(tool_output.peopleAlsoAsk[i].link)

\* ------------------------------------------------------------------------
\* C25  the "NO TRUSTED SOURCES FOUND" message
\* ------------------------------------------------------------------------

\* no organic result and no knowledge-graph entry passes the filter
NoTrustedSourceFound ==
    /\ process_organic_results(results.organic) = <<>>
    /\ process_knowledge_graph(results.knowledgeGraph) = <<>>

\* C25: _run returns the "NO TRUSTED SOURCES FOUND" message, with the number
\* of organic results of the response, whenever no organic result and no
\* knowledge-graph entry passes the filter; otherwise it returns the
\* formatted results with a count of trusted sources of at least 1.
C25_NoTrustedSourcesMessage ==
    Returned =>
        IF NoTrustedSourceFound
        THEN /\ tool_output.header = "NO TRUSTED SOURCES FOUND"
             /\ tool_output.total = Len(results.organic)
        ELSE /\ tool_output.header = "TRUSTED SEARCH RESULTS"
             /\ tool_output.total >= 1

\* ------------------------------------------------------------------------
\* C26  the exposed context is the one retrieved in the same run
\* ------------------------------------------------------------------------

\* C26: the rag_context returned by the knowledge-base stage is the context
\* the retrieval tool produced during that same run for that run's
\* question: never the context of an earlier run and never a placeholder,
\* also when the tool wrote no context (runs executing at the same time
\* are the subject of C21 and are left aside here).
C26_ExposedContextIsOwn ==
    (ContextExposed /\ retrieval.exposed # "concurrent") =>
        /\ retrieval.exposed = "own"
        /\ payload.rag_context = <<ContextOf(question)>>

\* ------------------------------------------------------------------------
\* C27  result fields are populated in pipeline order
\* ------------------------------------------------------------------------

\* the assignment of the field has been executed in this run: each stage
\* assigns its field in the step that returns its payload; all_results is
\* assigned right before the synthesis worker is called
Written(f) ==
    CASE f = "rag_result"  -> "rag_result" \in DOMAIN payload
      [] f = "web_result"  -> "web_result" \in DOMAIN payload
      [] f = "all_results" -> \E i \in 1..Len(calls) : calls[i].worker = "doc_crew"
      [] f = "document"    -> "doc_result" \in DOMAIN payload
      [] f = "final_doc"   -> "bias_result" \in DOMAIN payload

\* C27: in every reachable state final_doc written implies document written,
\* document written implies all_results and web_result written, web_result
\* written implies rag_result written; a field that was not written holds
\* its default; and whenever validation_error is set none of the five
\* result fields has been written.
C27_FieldsInPipelineOrder ==
    /\ Written("final_doc") => Written("document")
    /\ Written("document") => (Written("all_results") /\ Written("web_result"))
    /\ Written("web_result") => Written("rag_result")
    /\ \A f \in ResultFields : ~Written(f) => state[f] = AeronauticRagState[f]
    /\ state.validation_error # "" =>
          \A f \in ResultFields :
              ~Written(f) /\ state[f] = AeronauticRagState[f]

\* the synthesis worker failed: all_results, web_result and rag_result are
\* written, document and final_doc are not
C27_Witness ==
    /\ Terminal
    /\ Written("all_results")
    /\ Written("web_result")
    /\ ~Written("document")
    /\ ~Written("final_doc")
    /\ state.web_result # ""
    /\ state.all_results # <<>>
    /\ raised \in Errors

\* ------------------------------------------------------------------------
\* C28  validation_error and error_message are set together
\* ------------------------------------------------------------------------

ErrorMessageSet == state.error_message # <<>>

\* C28: in every reachable state validation_error is non-empty exactly when
\* error_message is non-empty, and once they are set no later step of the
\* run changes either of them.
C28_ErrorFieldsSetTogether ==
    /\ [](ValidationErrorSet <=> ErrorMessageSet)
    /\ [][(WithinRun /\ (ValidationErrorSet \/ ErrorMessageSet)) =>
             /\ state'.validation_error = state.validation_error
             /\ state'.error_message = state.error_message]_vars

\* the ethics gate rejected and handle_validation_error has run since
C28_Witness ==
    /\ Terminal
    /\ state.validation_error = "ethical"
    /\ state.error_message = EthicalMessage
    /\ execs["handle_validation_error"] = 1

\* ------------------------------------------------------------------------
\* C30  progress fractions
\* ------------------------------------------------------------------------

\* 0.05, 0.15, 0.25, 0.45, 0.65, 0.85, 0.95, 1.0
StageOrderFractions == <<5, 15, 25, 45, 65, 85, 95, 100>>

IsPrefix(s, t) == Len(s) <= Len(t) /\ s = SubSeq(t, 1, Len(s))

\* the run was reset: the fractions of the stages up to a gate, then 0.0
EndsWithReset ==
    /\ Len(emitted) \in {3, 4}
    /\ emitted[Len(emitted)] = 0
    /\ IsPrefix(SubSeq(emitted, 1, Len(emitted) - 1), StageOrderFractions)

\* C30: along every run the fractions emitted by the stages are strictly
\* increasing in stage order (0.05, 0.15, 0.25, 0.45, 0.65, 0.85, 0.95,
\* 1.0); 1.0 is emitted only after the bias-review stage has written
\* final_doc; the only decrease is the reset to 0.0 of
\* handle_validation_error, emitted only after a gate emitted
\* validation_failed, and that method invokes no worker.
C30_ProgressIncreasesInStageOrder ==
    /\ [](IsPrefix(emitted, StageOrderFractions) \/ EndsWithReset)
    /\ [](\A i \in 1..(Len(emitted) - 1) :
             emitted[i] < emitted[i + 1] \/ emitted[i + 1] = 0)
    /\ []((\E i \in 1..Len(emitted) : emitted[i] = 100) => Written("final_doc"))
    /\ []((\E i \in 1..Len(emitted) : emitted[i] = 0) =>
             /\ signal = "validation_failed"
             /\ ValidationErrorSet
             /\ \A w \in ResearchWorkers : invoked[w] = 0)
    /\ [][pc = "handle_validation_error" =>
             (invoked' = invoked /\ calls' = calls)]_vars

\* a completed run has emitted the eight fractions
C30_Witness ==
    /\ Terminal
    /\ emitted = StageOrderFractions
    /\ state.final_doc # ""

\* a rejected run has emitted the reset after the fractions of the gates
C30_ResetReached ==
    /\ Terminal
    /\ emitted = <<5, 15, 25, 0>>

\* ------------------------------------------------------------------------
\* C29  the caller's execution history
\* ------------------------------------------------------------------------

\* the handler reports on the flow that has just ended
HandlerReports == entry = "streamlit" /\ pc # "reported" /\ pc' = "reported"

\* the flow returned with validation_error empty and final_doc non-empty
RunCompleted ==
    /\ pc = "returned"
    /\ state.validation_error = ""
    /\ state.final_doc # ""

\* C29: the history grows by exactly one entry, holding the question and
\* the four artifacts of the run, for every run that completes
\* (validation_error empty and final_doc non-empty), and is left unchanged
\* by every run that is rejected, ends with an empty final document, or
\* raises; no other step changes it.
C29_HistoryGrowsWithCompletedRuns ==
    [][/\ (HandlerReports /\ RunCompleted) =>
             execution_history' =
                 Append(execution_history, HistoryEntry(question, state))
       /\ (HandlerReports /\ ~RunCompleted) =>
             execution_history' = execution_history
       /\ ~HandlerReports => execution_history' = execution_history]_vars

====
